---------------------------- MODULE Spec2Model ----------------------------
(***************************************************************************)
(* Model of src/modulefinder/sentry_modulefinder_linux.c: the per-module   *)
(* region table (sentry__module_mapping_push), the offset-to-address       *)
(* translation (sentry__module_get_addr), the note scan and text fallback  *)
(* of the ELF introspection, the grouping loop of load_modules and the     *)
(* lock-guarded module cache (sentry_get_modules_list,                     *)
(* sentry_clear_modulecache).                                              *)
(*                                                                         *)
(* uint64_t arithmetic is modelled modulo 2^WordBits: TLC's integers are   *)
(* 32 bits wide, so the 64-bit word is scaled down and every sum and       *)
(* difference the code computes in uint64_t wraps at UINT64_MOD.           *)
(***************************************************************************)
EXTENDS Integers, Sequences, FiniteSets, TLC

VARIABLES
    pm,         \* SpecPush: the sentry_module_t being accumulated (its mappings)
    pmPrev,     \* SpecPush: the mappings before the last push
    pmParsed,   \* SpecPush: the sentry_parsed_module_t of the last push, or NoParsed
    pmCount,    \* SpecPush: number of pushes done
    pmApart,    \* SpecPush: no fragment so far was contiguous with its predecessor
    am,         \* SpecAddr: the mappings of the module being translated against
    amEnd,      \* SpecAddr: end address of the last memory-map line pushed
    amOffEnd,   \* SpecAddr: end file offset of the last memory-map line pushed
    amCount,    \* SpecAddr: number of memory-map lines pushed
    aReq,       \* SpecAddr: the last request (start_offset, size), or NoReq
    aRes,       \* SpecAddr: what sentry__module_get_addr returned for aReq
    g_initialized,  \* SpecCache: the flag of line 24
    g_mutex,        \* SpecCache: the thread holding the lock of line 25, or NoThread
    g_modules,      \* SpecCache: the value of line 26: NullValue or a list's id
    values,         \* SpecCache: the lists allocated so far, by id
    pc,             \* SpecCache: each thread's position
    modules,        \* SpecCache: each thread's local `modules` of line 509
    handles,        \* SpecCache: per list, the handles callers hold and have not released
    load,           \* SpecCache: progress of the load_modules call in flight
    hist,           \* SpecCache: history of clears, builds and returns
    linux_vdso,     \* SpecLoad: what get_linux_vdso returned (line 452)
    elfAt,          \* SpecLoad: the addresses at which memory holds the ELF magic
    last_module,    \* SpecLoad: the module being accumulated (line 456)
    mlist,          \* SpecLoad: the list load_modules appends to
    lmLines,        \* SpecLoad: the map lines parsed so far
    lmOffered,      \* SpecLoad: the modules try_append_module was given
    lmDone,         \* SpecLoad: load_modules has returned
    ePc,            \* SpecElf: position in sentry__procmaps_read_ids_from_elf
    eClass,         \* SpecElf: e_ident[EI_CLASS] of the image
    eTab,           \* SpecElf: the header table being walked (offset, entsize, num, strndx)
    eI,             \* SpecElf: the loop index i
    eNote,          \* SpecElf: the locals of get_code_id_from_notes
    eCode,          \* SpecElf: code_id and code_id_size, names, or text and text_size
    eValid,         \* SpecElf: the ranges successful sentry__module_get_addr calls returned
    eReads,         \* SpecElf: the memory ranges the last step read
    eImg            \* SpecElf: the module (its mapped regions) under introspection

pushVars == <<pm, pmPrev, pmParsed, pmCount, pmApart>>

addrVars == <<am, amEnd, amOffEnd, amCount, aReq, aRes>>

cacheVars == <<g_initialized, g_mutex, g_modules, values, pc, modules, handles,
               load, hist>>

loadVars == <<linux_vdso, elfAt, last_module, mlist, lmLines, lmOffered, lmDone>>

elfVars == <<ePc, eClass, eTab, eI, eNote, eCode, eValid, eReads, eImg>>

vars == <<pushVars, addrVars, cacheVars, loadVars, elfVars>>

---------------------------------------------------------------------------
(* Machine words *)

WordBits == 8

UINT64_MOD == 2 ^ WordBits

UINT64_MAX == UINT64_MOD - 1

Word == 0 .. UINT64_MAX

\* a + b in uint64_t
Add64(a, b) == (a + b) % UINT64_MOD

\* a - b in uint64_t
Sub64(a, b) == (a - b + UINT64_MOD) % UINT64_MOD

MAX_MAPPINGS == 5

---------------------------------------------------------------------------
(* sentry__module_mapping_push *)

NoParsed == [start |-> 0, end |-> 0, offset |-> 0, none |-> TRUE]

Parsed(s, e, o) == [start |-> s, end |-> e, offset |-> o, none |-> FALSE]

\* sentry_mapped_region_t
Region(o, s, a) == [offset |-> o, size |-> s, addr |-> a]

\* a merge test that accepts address contiguity alone
MergeCondAddrOnly(last_mapping, parsed) ==
    Add64(last_mapping.addr, last_mapping.size) = parsed.start

\* the merge test of lines 68-69, on the last stored region
MergeCond(last_mapping, parsed) ==
    /\ Add64(last_mapping.addr, last_mapping.size) = parsed.start
    /\ Add64(last_mapping.offset, last_mapping.size) = parsed.offset

\* an off-by-one cap test
UnderCapInclusive(num_mappings) == num_mappings <= MAX_MAPPINGS

\* the cap test of line 74
UnderCap(num_mappings) == num_mappings < MAX_MAPPINGS

\* mappings is the sequence module->mappings[0 .. num_mappings-1]
sentry__module_mapping_push(mappings, parsed) ==
    LET size == Sub64(parsed.end, parsed.start)
        n    == Len(mappings)
    IN  IF n > 0 /\ MergeCond(mappings[n], parsed)
        THEN [mappings EXCEPT ![n].size = Add64(@, size)]
        ELSE IF UnderCap(n)
             THEN Append(mappings, Region(parsed.offset, size, parsed.start))
             ELSE mappings

---------------------------------------------------------------------------
(* sentry__module_get_addr *)

NULL == 0

\* start_offset lies in the file-offset range of mapping (lines 49-50)
OffsetInside(start_offset, mapping) ==
    /\ start_offset >= mapping.offset
    /\ start_offset < Add64(mapping.offset, mapping.size)

\* the loop of lines 41-56 from index i on, with the locals addr and addr_end
RECURSIVE GetAddrFrom(_, _, _, _, _, _)
GetAddrFrom(mappings, start_offset, size, i, addr, addr_end) ==
    IF i > Len(mappings)
    THEN NULL
    ELSE LET mapping == mappings[i]
         IN  IF addr # 0 /\ addr_end < mapping.addr
             THEN NULL
             ELSE LET new_end == Add64(mapping.addr, mapping.size)
                      new_addr ==
                          IF OffsetInside(start_offset, mapping)
                          THEN Add64(Sub64(start_offset, mapping.offset), mapping.addr)
                          ELSE addr
                  IN  IF new_addr # 0 /\ Add64(new_addr, size) <= new_end
                      THEN new_addr
                      ELSE GetAddrFrom(mappings, start_offset, size,
                                       i + 1, new_addr, new_end)

sentry__module_get_addr(mappings, start_offset, size) ==
    GetAddrFrom(mappings, start_offset, size, 1, 0, UINT64_MAX)

---------------------------------------------------------------------------
(* load_modules: the loop over the parsed lines, try_append_module *)

EI_NIDENT == 16

\* a path is the sequence of its characters
LINUX_GATE == <<"l", "i", "n", "u", "x", "-", "g", "a", "t", "e", ".", "s", "o">>

DevPrefix == <<"/", "d", "e", "v", "/">>

\* sentry_module_t after `= { 0 }` and after the memset of line 487
ZeroModule == [file |-> <<>>, mappings |-> <<>>]

\* sentry_parsed_module_t as sentry__procmaps_parse_module_line fills it
Line(s, e, perm, o, path) ==
    [start |-> s, end |-> e, permissions |-> perm, offset |-> o, file |-> path,
     none |-> FALSE]

\* strchr(file.ptr, '/') finds a slash inside the path (lines 476-477)
HasSlash(path) == \E i \in 1 .. Len(path) : path[i] = "/"

\* memcmp("/dev/", file.ptr, 5) == 0 (lines 478-479)
HasDevPrefix(path) == Len(path) >= 5 /\ SubSeq(path, 1, 5) = DevPrefix

\* line 471
IsVdsoLine(line) == line.start # 0 /\ line.start = linux_vdso

\* a filter that lets device files through
SkipLineNoDev(line) ==
    /\ ~IsVdsoLine(line)
    /\ \/ line.start = 0
       \/ Len(line.file) = 0
       \/ line.permissions[1] # "r"
       \/ line.file[Len(line.file)] = ")"
       \/ ~HasSlash(line.file)

\* the `continue` of lines 473-480
SkipLine(line) ==
    /\ ~IsVdsoLine(line)
    /\ \/ line.start = 0
       \/ Len(line.file) = 0
       \/ line.permissions[1] # "r"
       \/ line.file[Len(line.file)] = ")"
       \/ ~HasSlash(line.file)
       \/ HasDevPrefix(line.file)

\* lines 471-472: the path the line is filed under
LineFile(line) == IF IsVdsoLine(line) THEN LINUX_GATE ELSE line.file

\* a boundary test that looks at the path length only
PathChangedByLength(last, file) ==
    Len(last.file) # 0 /\ Len(last.file) # Len(file)

\* lines 483-484
PathChanged(last, file) == Len(last.file) # 0 /\ last.file # file

\* is_elf_module, lines 164-176
is_elf_module(module) ==
    LET e_ident == sentry__module_get_addr(module.mappings, 0, EI_NIDENT)
    IN  e_ident # NULL /\ e_ident \in elfAt

\* sentry__procmaps_module_to_value, lines 348-369, without the ids
Descriptor(module) ==
    [type |-> "elf",
     image_addr |-> module.mappings[1].addr,
     image_size |-> Add64(module.mappings[Len(module.mappings)].offset,
                          module.mappings[Len(module.mappings)].size),
     code_file |-> module.file]

\* lines 371-382
try_append_module(list, module) ==
    IF module.file = <<>>
    THEN list
    ELSE IF is_elf_module(module) THEN Append(list, Descriptor(module)) ELSE list

---------------------------------------------------------------------------
(* ELF introspection: get_code_id_from_elf, get_code_id_from_notes,
   get_code_id_from_text_fallback.  Memory holds arbitrary bytes: the value
   of a field is chosen when the field is read.  A record of field places
   gives each field's <<offset, length>> inside its structure. *)

SizeofNhdr == 12

EI_CLASS == 4

HashLimit == 4096

\* Elf64_Ehdr and Elf32_Ehdr: total size, and the fields the code reads
Ehdr(class) ==
    IF class = "ELFCLASS64"
    THEN [size |-> 64, ph |-> <<32, 26>>, sh |-> <<40, 24>>]
    ELSE [size |-> 52, ph |-> <<28, 18>>, sh |-> <<32, 20>>]

\* Elf64_Phdr and Elf32_Phdr: p_type, then the span up to the end of p_align
Phdr(class) ==
    IF class = "ELFCLASS64"
    THEN [size |-> 56, p_type |-> <<0, 4>>, rest |-> <<8, 48>>]
    ELSE [size |-> 32, p_type |-> <<0, 4>>, rest |-> <<4, 28>>]

\* Elf64_Shdr and Elf32_Shdr: sh_name and sh_type, sh_offset to sh_size,
\* sh_offset to sh_entsize
Shdr(class) ==
    IF class = "ELFCLASS64"
    THEN [size |-> 64, name_type |-> <<0, 8>>, off_size |-> <<24, 16>>,
          off_entsize |-> <<24, 40>>]
    ELSE [size |-> 40, name_type |-> <<0, 8>>, off_size |-> <<16, 8>>,
          off_entsize |-> <<16, 24>>]

\* the size lines 189 and 212 translate for the ELF header
IdEhdrSize(class) == Ehdr(class).size

\* the size lines 250 and 275 translate for the ELF header: sizeof(Elf64_Ehdr)
\* in both branches
FallbackEhdrSize(class) == Ehdr("ELFCLASS64").size

\* the read of field f of the structure at address base
FieldRead(base, f) == <<Add64(base, f[1]), f[2]>>

\* align(), lines 123-130
align(alignment, offset) ==
    LET diff == offset % alignment
    IN  IF diff # 0 THEN Add64(offset, alignment - diff) ELSE offset

\* lines 137-141: the alignment the scan uses, 0 when the segment is skipped
NoteAlignment(p_align) ==
    IF p_align < 4 THEN 4
    ELSE IF p_align # 4 /\ p_align # 8 THEN 0
    ELSE p_align

\* a module whose file is mapped as one region of 160 bytes
ElfImage == <<Region(0, 160, 32)>>

\* a module whose mapping is too short for an ELF header
ShortImage == <<Region(0, 8, 32)>>

ElfImages == {ElfImage, ShortImage}

NoTable == [off |-> 0, entsize |-> 0, num |-> 0, strndx |-> 0]

NoNote == [offset |-> 0, end |-> 0, alignment |-> 0]

NoCode == [ptr |-> 0, size |-> 0]

---------------------------------------------------------------------------
(* The value tree (sentry_value.h) as far as the cache uses it: a list is a
   reference-counted heap object that can be frozen; the null value and the
   zero-initialised `{ 0 }` of line 26 are not heap objects, and incref,
   decref, freeze and append leave them alone. *)

NullValue == 0

NewList == [refcount |-> 1, frozen |-> FALSE, items |-> <<>>, freed |-> FALSE]

sentry_value_new_list(vals) == Append(vals, NewList)

sentry_value_incref(vals, v) ==
    IF v = NullValue THEN vals ELSE [vals EXCEPT ![v].refcount = @ + 1]

sentry_value_decref(vals, v) ==
    IF v = NullValue
    THEN vals
    ELSE IF vals[v].refcount = 1
         THEN [vals EXCEPT ![v] = [refcount |-> 0, frozen |-> @.frozen,
                                   items |-> <<>>, freed |-> TRUE]]
         ELSE [vals EXCEPT ![v].refcount = @ - 1]

sentry_value_freeze(vals, v) ==
    IF v = NullValue THEN vals ELSE [vals EXCEPT ![v].frozen = TRUE]

\* appending to a frozen list is refused
sentry_value_append(vals, v, d) ==
    IF v = NullValue \/ vals[v].frozen
    THEN vals
    ELSE [vals EXCEPT ![v].items = Append(@, d)]

---------------------------------------------------------------------------
(* sentry_get_modules_list, sentry_clear_modulecache and their callers *)

NumThreads == 2

MaxClears == 1

MaxHandles == 2

MaxModules == 1

Threads == 1 .. NumThreads

NoThread == 0

\* the module descriptors a build can append
Descriptors == {"libc"}

\* positions inside load_modules and around it, line 501 to line 507
BuildPcs == {"g_new", "l_open", "l_read", "l_string", "l_parse", "g_freeze"}

GetPcs == BuildPcs \cup {"g_lock", "g_check", "g_incref", "g_unlock"}

\* outcomes of load_modules that leave the list without any parsed line
Failures == {"open_failed", "read_failed", "no_memory"}

NoLoad == [data |-> FALSE, outcome |-> "none"]

\* a lock that is never taken
NoMutex == TRUE

\* sentry__mutex_lock(&g_mutex) can return: nobody holds the lock
MutexFree == g_mutex = NoThread

\* a get that hands out g_modules without taking a reference
GetNoReference(vals, v) == vals

\* line 510
GetReference(vals, v) == sentry_value_incref(vals, v)

\* a build that leaves the list open
BuildNoFreeze(vals, v) == vals

\* line 506
BuildFreeze(vals, v) == sentry_value_freeze(vals, v)

\* a flag that is set only when load_modules read the map
InitializedIfLoaded(outcome) == outcome \notin Failures

\* line 507: the flag is set whatever load_modules did
InitializedAfterLoad(outcome) == TRUE

Sum(f, S) ==
    LET RECURSIVE Go(_)
        Go(T) == IF T = {} THEN 0
                 ELSE LET x == CHOOSE y \in T : TRUE IN f[x] + Go(T \ {x})
    IN  Go(S)

\* the history keeps nothing about lists that have been destroyed
Forget(h, vals) ==
    [h EXCEPT
       !.born = [v \in DOMAIN @ |-> IF vals[v].freed THEN 0 ELSE @[v]],
       !.published = [v \in DOMAIN @ |-> IF vals[v].freed THEN <<>> ELSE @[v]],
       !.outcome = [v \in DOMAIN @ |-> IF vals[v].freed THEN "freed" ELSE @[v]]]

\* handles held by callers, and gets that will return one
HandlesOut ==
    Sum(handles, 1 .. Len(handles)) + Cardinality({t \in Threads : pc[t] \in GetPcs})

---------------------------------------------------------------------------
(* Inputs and initial state *)


MaxPush == 6

PushStarts == {1, 2, 3}

PushSizes == {1}

PushOffsets == {0, 1}

\* fragment q directly continues fragment p in address and in file offset
Contiguous(p, q) ==
    /\ p.end = q.start
    /\ Add64(p.offset, Sub64(p.end, p.start)) = q.offset

MaxLines == 5

AddrStarts == {2, 3, 4, 5, 6}

AddrSizes == {1, 2}

AddrOffsets == {0, 1, 2, 3}

ReqOffsets == 0 .. 5

\* small sizes, and the sizes next to UINT64_MAX
ReqSizes == (0 .. 4) \cup (UINT64_MAX - 3 .. UINT64_MAX)

\* sizes for which no candidate address of the tables above wraps
SmallReqSizes == 0 .. 4

NoReq == [none |-> TRUE]

Req(o, z) == [none |-> FALSE, start_offset |-> o, size |-> z]

MaxMapLines == 4

\* every line of the map excerpt covers this many bytes
LineBytes == EI_NIDENT

\* get_linux_vdso found no vDSO, or found it at this address
VdsoChoices == {0, 48}

\* memory holds the ELF magic at these mapped addresses
ElfChoices == {{16, 32, 48, 64, 80}, {16, 48}}

PathA == <<"/", "a">>

PathB == <<"/", "b">>

PathPseudo == <<"[", "h", "]">>

PathDeleted == <<"/", "a", " ", "(", "d", ")">>

PathDev == <<"/", "d", "e", "v", "/", "z">>

PermRead == <<"r", "-", "x", "p">>

PermNone == <<"-", "-", "-", "p">>

\* the n-th line of the excerpt: lines follow each other in address order;
\* a line is an ordinary one of file /a or /b, at file offset 0 or at the
\* offset that continues the line before it, or it has one of the defects
MapLines(n) ==
    LET s == LineBytes * n
        e == s + LineBytes
    IN  {Line(s, e, PermRead, o, f) : o \in {0, LineBytes * (n - 1)}, f \in {PathA, PathB}}
        \cup {Line(s, e, PermRead, 0, f) : f \in {<<>>, PathPseudo, PathDeleted, PathDev}}
        \cup {Line(s, e, PermNone, 0, PathA), Line(0, LineBytes, PermRead, 0, PathA)}

InitCommon ==
    /\ pm = <<>>
    /\ pmPrev = <<>>
    /\ pmParsed = NoParsed
    /\ pmCount = 0
    /\ pmApart = TRUE
    /\ am = <<>>
    /\ amEnd = 0
    /\ amOffEnd = 0
    /\ amCount = 0
    /\ aReq = NoReq
    /\ aRes = 0
    /\ g_initialized = FALSE
    /\ g_mutex = NoThread
    /\ g_modules = NullValue
    /\ values = <<>>
    /\ pc = [t \in Threads |-> "idle"]
    /\ modules = [t \in Threads |-> NullValue]
    /\ handles = <<>>
    /\ load = NoLoad
    /\ hist = [clearsBegun |-> 0, clearsDone |-> 0, builds |-> 0, returned |-> {},
               born |-> <<>>, published |-> <<>>, outcome |-> <<>>,
               started |-> [t \in Threads |-> 0]]
    /\ last_module = ZeroModule
    /\ mlist = <<>>
    /\ lmLines = <<>>
    /\ lmOffered = <<>>
    /\ lmDone = FALSE
    /\ ePc = "id_ident"
    /\ eClass = "unread"
    /\ eTab = NoTable
    /\ eI = 0
    /\ eNote = NoNote
    /\ eCode = NoCode
    /\ eValid = {}
    /\ eReads = {}

\* the state after construction; load_modules has not looked for the vDSO
Init ==
    /\ InitCommon
    /\ linux_vdso = 0
    /\ elfAt = {}
    /\ eImg = ElfImage

\* load_modules at line 456: the vDSO has been looked up, memory is as it is
LoadInit ==
    /\ InitCommon
    /\ linux_vdso \in VdsoChoices
    /\ elfAt \in ElfChoices
    /\ eImg = ElfImage

\* sentry__procmaps_read_ids_from_elf is entered with some module
ElfInit ==
    /\ InitCommon
    /\ linux_vdso = 0
    /\ elfAt = {}
    /\ eImg \in ElfImages

---------------------------------------------------------------------------
(* SpecPush: any sequence of pushes on one module *)

Push ==
    /\ pmCount < MaxPush
    /\ \E s \in PushStarts, z \in PushSizes, o \in PushOffsets :
         LET parsed == Parsed(s, Add64(s, z), o)
         IN  /\ pm' = sentry__module_mapping_push(pm, parsed)
             /\ pmPrev' = pm
             /\ pmParsed' = parsed
             /\ pmApart' = (pmApart /\ (pmParsed.none \/ ~Contiguous(pmParsed, parsed)))
    /\ pmCount' = pmCount + 1
    /\ UNCHANGED <<addrVars, cacheVars, loadVars, elfVars>>

PushNext == Push

---------------------------------------------------------------------------
(* SpecAddr, SpecGap: a region table built from memory-map lines, then
   translation requests against it.  The lines are those of the kernel's
   map: non-empty, start above zero, in ascending address order without
   overlap. *)

\* one more line of the map is pushed; with inFileOrder the file offsets of
\* the lines ascend without overlap as well
LinePush(inFileOrder) ==
    /\ aReq.none
    /\ amCount < MaxLines
    /\ \E s \in AddrStarts, z \in AddrSizes, o \in AddrOffsets :
         /\ s >= amEnd
         /\ inFileOrder => o >= amOffEnd
         /\ am' = sentry__module_mapping_push(am, Parsed(s, s + z, o))
         /\ amEnd' = s + z
         /\ amOffEnd' = o + z
    /\ amCount' = amCount + 1
    /\ aReq' = NoReq
    /\ aRes' = NULL
    /\ UNCHANGED <<pushVars, cacheVars, loadVars, elfVars>>

AddrPush == LinePush(FALSE)

GapPush == LinePush(TRUE)

TranslateIn(sizes) ==
    /\ aReq.none
    /\ \E o \in ReqOffsets, z \in sizes :
         /\ aReq' = Req(o, z)
         /\ aRes' = sentry__module_get_addr(am, o, z)
    /\ UNCHANGED <<am, amEnd, amOffEnd, amCount>>
    /\ UNCHANGED <<pushVars, cacheVars, loadVars, elfVars>>

Translate == TranslateIn(ReqSizes)

TranslateSmall == TranslateIn(SmallReqSizes)

AddrNext == AddrPush \/ Translate

GapNext == GapPush \/ TranslateSmall

---------------------------------------------------------------------------
(* SpecLoad: load_modules from line 456 on, over the lines of a map *)

\* one turn of the loop of lines 457-491 with a line that parsed
LoadLine ==
    /\ ~lmDone
    /\ Len(lmLines) < MaxMapLines
    /\ \E line \in MapLines(Len(lmLines) + 1) :
         /\ lmLines' = Append(lmLines, line)
         /\ IF SkipLine(line)
            THEN UNCHANGED <<last_module, mlist, lmOffered>>
            ELSE LET file == LineFile(line)
                     changed == PathChanged(last_module, file)
                     base == IF changed THEN ZeroModule ELSE last_module
                 IN  /\ mlist' = IF changed
                                 THEN try_append_module(mlist, last_module)
                                 ELSE mlist
                     /\ lmOffered' = IF changed
                                     THEN Append(lmOffered, last_module)
                                     ELSE lmOffered
                     /\ last_module' =
                            [file |-> file,
                             mappings |-> sentry__module_mapping_push(base.mappings, line)]
    /\ UNCHANGED <<linux_vdso, elfAt, lmDone>>
    /\ UNCHANGED <<pushVars, addrVars, cacheVars, elfVars>>

\* the parse returns 0: lines 461-463, then lines 492-493
LoadEnd ==
    /\ ~lmDone
    /\ mlist' = try_append_module(mlist, last_module)
    /\ lmOffered' = IF last_module.file = <<>> THEN lmOffered
                    ELSE Append(lmOffered, last_module)
    /\ lmDone' = TRUE
    /\ UNCHANGED <<linux_vdso, elfAt, last_module, lmLines>>
    /\ UNCHANGED <<pushVars, addrVars, cacheVars, elfVars>>

LoadNext == LoadLine \/ LoadEnd

---------------------------------------------------------------------------
(* SpecCache: threads calling sentry_get_modules_list and
   sentry_clear_modulecache, callers releasing the handles they got *)

\* a caller enters sentry_get_modules_list
GetCall(t) ==
    /\ pc[t] = "idle"
    /\ HandlesOut < MaxHandles
    /\ pc' = [pc EXCEPT ![t] = "g_lock"]
    /\ hist' = [hist EXCEPT !.started[t] = hist.clearsDone]
    /\ UNCHANGED <<g_initialized, g_mutex, g_modules, values, modules, handles, load>>
    /\ UNCHANGED <<pushVars, addrVars, loadVars, elfVars>>

\* lines 499 and 518
Lock(t) ==
    /\ pc[t] \in {"g_lock", "c_lock"}
    /\ MutexFree
    /\ g_mutex' = t
    /\ pc' = [pc EXCEPT ![t] = IF pc[t] = "g_lock" THEN "g_check" ELSE "c_body"]
    /\ UNCHANGED <<g_initialized, g_modules, values, modules, handles, load, hist>>
    /\ UNCHANGED <<pushVars, addrVars, loadVars, elfVars>>

\* line 500
GetCheck(t) ==
    /\ pc[t] = "g_check"
    /\ pc' = [pc EXCEPT ![t] = IF g_initialized THEN "g_incref" ELSE "g_new"]
    /\ UNCHANGED <<g_initialized, g_mutex, g_modules, values, modules, handles, load, hist>>
    /\ UNCHANGED <<pushVars, addrVars, loadVars, elfVars>>

\* line 501
GetNewList(t) ==
    /\ pc[t] = "g_new"
    /\ values' = sentry_value_new_list(values)
    /\ g_modules' = Len(values) + 1
    /\ handles' = Append(handles, 0)
    /\ load' = NoLoad
    /\ hist' = [hist EXCEPT !.builds = @ + 1,
                            !.born = Append(@, hist.clearsDone),
                            !.published = Append(@, <<>>),
                            !.outcome = Append(@, "building")]
    /\ pc' = [pc EXCEPT ![t] = "l_open"]
    /\ UNCHANGED <<g_initialized, g_mutex, modules>>
    /\ UNCHANGED <<pushVars, addrVars, loadVars, elfVars>>

\* load_modules has returned with this outcome
LoadReturn(t, outcome) ==
    /\ hist' = [hist EXCEPT !.outcome[g_modules] = outcome]
    /\ load' = [load EXCEPT !.outcome = outcome]
    /\ pc' = [pc EXCEPT ![t] = "g_freeze"]

\* lines 422-425
LoadOpen(t) ==
    /\ pc[t] = "l_open"
    /\ \/ LoadReturn(t, "open_failed")
       \/ /\ pc' = [pc EXCEPT ![t] = "l_read"]
          /\ UNCHANGED <<load, hist>>
    /\ UNCHANGED <<g_initialized, g_mutex, g_modules, values, modules, handles>>
    /\ UNCHANGED <<pushVars, addrVars, loadVars, elfVars>>

\* lines 431-444: one turn of the read loop
LoadRead(t) ==
    /\ pc[t] = "l_read"
    /\ \/ \* n > 0 and the buffer grows
          /\ load' = [load EXCEPT !.data = TRUE]
          /\ UNCHANGED <<pc, hist>>
       \/ \* n > 0 and sentry__stringbuilder_append_buf fails
          LoadReturn(t, "no_memory")
       \/ \* EAGAIN or EINTR
          UNCHANGED <<pc, load, hist>>
       \/ \* n = 0: end of file
          /\ load' = [load EXCEPT !.outcome = "eof"]
          /\ pc' = [pc EXCEPT ![t] = "l_string"]
          /\ UNCHANGED hist
       \/ \* n < 0 with another errno
          /\ load' = [load EXCEPT !.outcome = "error"]
          /\ pc' = [pc EXCEPT ![t] = "l_string"]
          /\ UNCHANGED hist
    /\ UNCHANGED <<g_initialized, g_mutex, g_modules, values, modules, handles>>
    /\ UNCHANGED <<pushVars, addrVars, loadVars, elfVars>>

\* lines 446-450
LoadString(t) ==
    /\ pc[t] = "l_string"
    /\ \/ LoadReturn(t, "no_memory")
       \/ /\ pc' = [pc EXCEPT ![t] = "l_parse"]
          /\ UNCHANGED <<load, hist>>
    /\ UNCHANGED <<g_initialized, g_mutex, g_modules, values, modules, handles>>
    /\ UNCHANGED <<pushVars, addrVars, loadVars, elfVars>>

\* lines 456-493: the lines of the contents read are parsed and each module
\* that passes try_append_module is appended; without data there is no line
LoadParse(t) ==
    /\ pc[t] = "l_parse"
    /\ \/ /\ load.data
          /\ Len(values[g_modules].items) < MaxModules
          /\ \E d \in Descriptors :
               values' = sentry_value_append(values, g_modules, d)
          /\ UNCHANGED <<pc, load, hist>>
       \/ /\ LoadReturn(t, IF ~load.data /\ load.outcome = "error"
                           THEN "read_failed" ELSE "ok")
          /\ UNCHANGED values
    /\ UNCHANGED <<g_initialized, g_mutex, g_modules, modules, handles>>
    /\ UNCHANGED <<pushVars, addrVars, loadVars, elfVars>>

\* lines 506-507
GetFreeze(t) ==
    /\ pc[t] = "g_freeze"
    /\ values' = BuildFreeze(values, g_modules)
    /\ g_initialized' = InitializedAfterLoad(load.outcome)
    /\ pc' = [pc EXCEPT ![t] = "g_incref"]
    /\ UNCHANGED <<g_mutex, g_modules, modules, handles, load, hist>>
    /\ UNCHANGED <<pushVars, addrVars, loadVars, elfVars>>

\* lines 509-510
GetIncref(t) ==
    /\ pc[t] = "g_incref"
    /\ modules' = [modules EXCEPT ![t] = g_modules]
    /\ values' = GetReference(values, g_modules)
    /\ hist' = [hist EXCEPT
                  !.returned = @ \cup {g_modules},
                  !.published = IF g_modules # NullValue /\ @[g_modules] = <<>>
                                THEN [@ EXCEPT ![g_modules] = <<values[g_modules].items>>]
                                ELSE @]
    /\ pc' = [pc EXCEPT ![t] = "g_unlock"]
    /\ UNCHANGED <<g_initialized, g_mutex, g_modules, handles, load>>
    /\ UNCHANGED <<pushVars, addrVars, loadVars, elfVars>>

\* lines 511-512: the lock is released and the caller has the handle
GetUnlock(t) ==
    /\ pc[t] = "g_unlock"
    /\ g_mutex' = IF g_mutex = t THEN NoThread ELSE g_mutex
    /\ handles' = IF modules[t] = NullValue THEN handles
                  ELSE [handles EXCEPT ![modules[t]] = @ + 1]
    /\ modules' = [modules EXCEPT ![t] = NullValue]
    /\ pc' = [pc EXCEPT ![t] = "idle"]
    /\ UNCHANGED <<g_initialized, g_modules, values, load, hist>>
    /\ UNCHANGED <<pushVars, addrVars, loadVars, elfVars>>

\* a caller enters sentry_clear_modulecache
ClearCall(t) ==
    /\ pc[t] = "idle"
    /\ hist.clearsBegun < MaxClears
    /\ pc' = [pc EXCEPT ![t] = "c_lock"]
    /\ hist' = [hist EXCEPT !.clearsBegun = @ + 1]
    /\ UNCHANGED <<g_initialized, g_mutex, g_modules, values, modules, handles, load>>
    /\ UNCHANGED <<pushVars, addrVars, loadVars, elfVars>>

\* lines 519-521
ClearBody(t) ==
    /\ pc[t] = "c_body"
    /\ values' = sentry_value_decref(values, g_modules)
    /\ g_modules' = NullValue
    /\ g_initialized' = FALSE
    /\ hist' = Forget([hist EXCEPT !.builds = 0, !.returned = {}], values')
    /\ pc' = [pc EXCEPT ![t] = "c_unlock"]
    /\ UNCHANGED <<g_mutex, modules, handles, load>>
    /\ UNCHANGED <<pushVars, addrVars, loadVars, elfVars>>

\* line 522, and the return
ClearUnlock(t) ==
    /\ pc[t] = "c_unlock"
    /\ g_mutex' = IF g_mutex = t THEN NoThread ELSE g_mutex
    /\ hist' = [hist EXCEPT !.clearsDone = @ + 1]
    /\ pc' = [pc EXCEPT ![t] = "idle"]
    /\ UNCHANGED <<g_initialized, g_modules, values, modules, handles, load>>
    /\ UNCHANGED <<pushVars, addrVars, loadVars, elfVars>>

\* a caller releases a handle it got from sentry_get_modules_list
Release ==
    /\ \E v \in 1 .. Len(handles) :
         /\ handles[v] > 0
         /\ values' = sentry_value_decref(values, v)
         /\ handles' = [handles EXCEPT ![v] = @ - 1]
    /\ hist' = Forget(hist, values')
    /\ UNCHANGED <<g_initialized, g_mutex, g_modules, pc, modules, load>>
    /\ UNCHANGED <<pushVars, addrVars, loadVars, elfVars>>

\* a caller tries to append to the list it holds
CallerAppend ==
    /\ \E v \in 1 .. Len(handles), d \in Descriptors :
         /\ handles[v] > 0
         /\ Len(values[v].items) < MaxModules
         /\ values' = sentry_value_append(values, v, d)
    /\ UNCHANGED <<g_initialized, g_mutex, g_modules, pc, modules, handles, load, hist>>
    /\ UNCHANGED <<pushVars, addrVars, loadVars, elfVars>>

CacheNext ==
    \/ \E t \in Threads :
         \/ GetCall(t) \/ Lock(t) \/ GetCheck(t) \/ GetNewList(t)
         \/ LoadOpen(t) \/ LoadRead(t) \/ LoadString(t) \/ LoadParse(t)
         \/ GetFreeze(t) \/ GetIncref(t) \/ GetUnlock(t)
         \/ ClearCall(t) \/ ClearBody(t) \/ ClearUnlock(t)
    \/ Release
    \/ CallerAppend

---------------------------------------------------------------------------
(* SpecElf: sentry__procmaps_read_ids_from_elf on one module.  Each action
   is one stretch of code between two translations; eReads holds what the
   stretch read, eValid every range a translation has returned so far. *)

Classes == {"ELFCLASS64", "ELFCLASS32"}

EntryCounts == {0, 1, 2}

TableOffsets == {64}

NoteTypes == {"PT_NOTE", "PT_LOAD"}

SegmentOffsets == {128}

SegmentSizes == {0, 4, 24, 32}

Alignments == {0, 4, 8, 16}

NameSizes == {0, 4, 5}

DescSizes == {0, 8, 20}

NoteKinds == {"NT_GNU_BUILD_ID", "NT_OTHER"}

StrIndexes == {0, 1}

NameOffsets == {0, 12, 40}

SectionTypes == {"SHT_PROGBITS", "SHT_NOBITS"}

\* strcmp(name, ".text") reads 1 byte (first byte differs) up to 6 bytes
\* (the terminator), and only 6 bytes read can compare equal
StrcmpReads == {1, 6}

SectionSizes == {0, 16, 64}

StrTabSizes == {0, 16}

EntrySizes(full) == {0, full}

ElfStep(next, reads, valid) ==
    /\ ePc' = next
    /\ eReads' = reads
    /\ eValid' = eValid \cup valid
    /\ UNCHANGED <<eImg, pushVars, addrVars, cacheVars, loadVars>>

\* the translation of entry i of the table: offset + entsize * i, entsize bytes
EntryAddr(i) ==
    sentry__module_get_addr(eImg,
        Add64(eTab.off, (eTab.entsize * i) % UINT64_MOD), eTab.entsize)

\* get_code_id_from_elf, lines 184-187
IdIdent ==
    /\ ePc = "id_ident"
    /\ LET e_ident == sentry__module_get_addr(eImg, 0, EI_NIDENT)
       IN  IF e_ident = NULL
           THEN /\ ElfStep("fb_ident", {}, {})
                /\ UNCHANGED <<eClass, eTab, eI, eNote, eCode>>
           ELSE \E class \in Classes :
                /\ eClass' = class
                /\ ElfStep("id_ehdr", {<<Add64(e_ident, EI_CLASS), 1>>},
                           {<<e_ident, EI_NIDENT>>})
                /\ UNCHANGED <<eTab, eI, eNote, eCode>>

\* lines 188-191 and 211-215: the ELF header and its program header table
IdEhdr ==
    /\ ePc = "id_ehdr"
    /\ LET elf == sentry__module_get_addr(eImg, 0, IdEhdrSize(eClass))
       IN  IF elf = NULL
           THEN /\ ElfStep("fb_ident", {}, {})
                /\ UNCHANGED <<eClass, eTab, eI, eNote, eCode>>
           ELSE \E n \in EntryCounts, o \in TableOffsets,
                   z \in EntrySizes(Phdr(eClass).size) :
                /\ eTab' = [off |-> o, entsize |-> z, num |-> n, strndx |-> 0]
                /\ eI' = 0
                /\ ElfStep("id_phdr", {FieldRead(elf, Ehdr(eClass).ph)},
                           {<<elf, IdEhdrSize(eClass)>>})
                /\ UNCHANGED <<eClass, eNote, eCode>>

\* lines 191-202 and 215-225: one program header, and the segment of a note
\* header; the call of get_code_id_from_notes up to its loop, lines 136-143
IdPhdr ==
    /\ ePc = "id_phdr"
    /\ IF ~(eI < eTab.num)
       THEN /\ ElfStep("fb_ident", {}, {})
            /\ UNCHANGED <<eClass, eTab, eI, eNote, eCode>>
       ELSE LET header == EntryAddr(eI)
                h == Phdr(eClass)
            IN  IF header = NULL
                THEN /\ ElfStep("fb_ident", {}, {})
                     /\ UNCHANGED <<eClass, eTab, eI, eNote, eCode>>
                ELSE \E p_type \in NoteTypes :
                     IF p_type # "PT_NOTE"
                     THEN /\ eI' = eI + 1
                          /\ ElfStep("id_phdr", {FieldRead(header, h.p_type)},
                                     {<<header, eTab.entsize>>})
                          /\ UNCHANGED <<eClass, eTab, eNote, eCode>>
                     ELSE \E p_offset \in SegmentOffsets, p_filesz \in SegmentSizes,
                             p_align \in Alignments :
                          LET segment_addr ==
                                  sentry__module_get_addr(eImg, p_offset, p_filesz)
                              reads == {FieldRead(header, h.p_type),
                                        FieldRead(header, h.rest)}
                          IN  IF segment_addr = NULL
                              THEN /\ ElfStep("fb_ident", reads,
                                              {<<header, eTab.entsize>>})
                                   /\ UNCHANGED <<eClass, eTab, eI, eNote, eCode>>
                              ELSE IF NoteAlignment(p_align) = 0
                              THEN /\ eI' = eI + 1
                                   /\ ElfStep("id_phdr", reads,
                                              {<<header, eTab.entsize>>,
                                               <<segment_addr, p_filesz>>})
                                   /\ UNCHANGED <<eClass, eTab, eNote, eCode>>
                              ELSE /\ eNote' = [offset |-> segment_addr,
                                                end |-> Add64(segment_addr, p_filesz),
                                                alignment |-> NoteAlignment(p_align)]
                                   /\ ElfStep("id_note", reads,
                                              {<<header, eTab.entsize>>,
                                               <<segment_addr, p_filesz>>})
                                   /\ UNCHANGED <<eClass, eTab, eI, eCode>>

\* get_code_id_from_notes, lines 144-161: one turn of the loop
IdNote ==
    /\ ePc = "id_note"
    /\ IF ~(eNote.offset < eNote.end)
       THEN /\ eI' = eI + 1
            /\ ElfStep("id_phdr", {}, {})
            /\ UNCHANGED <<eClass, eTab, eNote, eCode>>
       ELSE \E n_namesz \in NameSizes, n_descsz \in DescSizes, n_type \in NoteKinds :
            LET note == eNote.offset
                desc == align(eNote.alignment,
                              Add64(Add64(note, SizeofNhdr), n_namesz))
            IN  IF n_type = "NT_GNU_BUILD_ID"
                THEN /\ eCode' = [ptr |-> desc, size |-> n_descsz]
                     /\ ElfStep("id_code", {<<note, SizeofNhdr>>}, {})
                     /\ UNCHANGED <<eClass, eTab, eI, eNote>>
                ELSE /\ eNote' = [eNote EXCEPT !.offset =
                                      align(eNote.alignment, Add64(desc, n_descsz))]
                     /\ ElfStep("id_note", {<<note, SizeofNhdr>>}, {})
                     /\ UNCHANGED <<eClass, eTab, eI, eCode>>

\* sentry__procmaps_read_ids_from_elf, lines 323-327: the build id is read
IdCode ==
    /\ ePc = "id_code"
    /\ ElfStep("done", {<<eCode.ptr, eCode.size>>}, {})
    /\ UNCHANGED <<eClass, eTab, eI, eNote, eCode>>

\* get_code_id_from_text_fallback, lines 245-248
FbIdent ==
    /\ ePc = "fb_ident"
    /\ LET e_ident == sentry__module_get_addr(eImg, 0, EI_NIDENT)
       IN  IF e_ident = NULL
           THEN ElfStep("done", {}, {})
           ELSE ElfStep("fb_ehdr", {<<Add64(e_ident, EI_CLASS), 1>>},
                        {<<e_ident, EI_NIDENT>>})
    /\ UNCHANGED <<eClass, eTab, eI, eNote, eCode>>

\* lines 249-251 and 274-276: the ELF header and its section header table
FbEhdr ==
    /\ ePc = "fb_ehdr"
    /\ LET elf == sentry__module_get_addr(eImg, 0, FallbackEhdrSize(eClass))
       IN  IF elf = NULL
           THEN /\ ElfStep("done", {}, {})
                /\ UNCHANGED <<eClass, eTab, eI, eNote, eCode>>
           ELSE \E n \in EntryCounts, o \in TableOffsets, x \in StrIndexes,
                   z \in EntrySizes(Shdr(eClass).size) :
                /\ eTab' = [off |-> o, entsize |-> z, num |-> n, strndx |-> x]
                /\ ElfStep("fb_str", {FieldRead(elf, Ehdr(eClass).sh)},
                           {<<elf, FallbackEhdrSize(eClass)>>})
                /\ UNCHANGED <<eClass, eI, eNote, eCode>>

\* lines 252-259 and 277-284: the string table's section header and the table
FbStr ==
    /\ ePc = "fb_str"
    /\ LET strheader == EntryAddr(eTab.strndx)
       IN  IF strheader = NULL
           THEN /\ ElfStep("done", {}, {})
                /\ UNCHANGED <<eClass, eTab, eI, eNote, eCode>>
           ELSE \E sh_offset \in SegmentOffsets, sh_entsize \in StrTabSizes :
                LET names == sentry__module_get_addr(eImg, sh_offset, sh_entsize)
                    reads == {FieldRead(strheader, Shdr(eClass).off_entsize)}
                IN  IF names = NULL
                    THEN /\ ElfStep("done", reads, {<<strheader, eTab.entsize>>})
                         /\ UNCHANGED <<eClass, eTab, eI, eNote, eCode>>
                    ELSE /\ eCode' = [ptr |-> names, size |-> sh_entsize]
                         /\ eI' = 0
                         /\ ElfStep("fb_sec", reads,
                                    {<<strheader, eTab.entsize>>,
                                     <<names, sh_entsize>>})
                         /\ UNCHANGED <<eClass, eTab, eNote>>

\* lines 260-272 and 285-297: one section header; eCode holds names
FbSec ==
    /\ ePc = "fb_sec"
    /\ IF ~(eI < eTab.num)
       THEN /\ eCode' = NoCode
            /\ ElfStep("fb_hash", {}, {})
            /\ UNCHANGED <<eClass, eTab, eI, eNote>>
       ELSE LET header == EntryAddr(eI)
                h == Shdr(eClass)
            IN  IF header = NULL
                THEN /\ ElfStep("done", {}, {})
                     /\ UNCHANGED <<eClass, eTab, eI, eNote, eCode>>
                ELSE \E sh_name \in NameOffsets, sh_type \in SectionTypes :
                     LET name == Add64(eCode.ptr, sh_name)
                         head == {FieldRead(header, h.name_type)}
                         ok == {<<header, eTab.entsize>>}
                     IN  IF sh_type # "SHT_PROGBITS"
                         THEN /\ eI' = eI + 1
                              /\ ElfStep("fb_sec", head, ok)
                              /\ UNCHANGED <<eClass, eTab, eNote, eCode>>
                         ELSE \E k \in StrcmpReads, equal \in BOOLEAN :
                              /\ equal => k = 6
                              /\ IF ~equal
                                 THEN /\ eI' = eI + 1
                                      /\ ElfStep("fb_sec", head \cup {<<name, k>>}, ok)
                                      /\ UNCHANGED <<eClass, eTab, eNote, eCode>>
                                 ELSE \E sh_offset \in SegmentOffsets,
                                         sh_size \in SectionSizes :
                                      LET text == sentry__module_get_addr(
                                                      eImg, sh_offset, sh_size)
                                          reads == head \cup {<<name, k>>,
                                                       FieldRead(header, h.off_size)}
                                      IN  IF text = NULL
                                          THEN /\ ElfStep("done", reads, ok)
                                               /\ UNCHANGED <<eClass, eTab, eI,
                                                              eNote, eCode>>
                                          ELSE /\ eCode' = [ptr |-> text,
                                                            size |-> sh_size]
                                               /\ ElfStep("fb_hash", reads,
                                                      ok \cup {<<text, sh_size>>})
                                               /\ UNCHANGED <<eClass, eTab, eI, eNote>>

\* lines 304-307: the bytes of the text section that are hashed
FbHash ==
    /\ ePc = "fb_hash"
    /\ ElfStep("done",
               {<<eCode.ptr, IF eCode.size < HashLimit THEN eCode.size ELSE HashLimit>>},
               {})
    /\ UNCHANGED <<eClass, eTab, eI, eNote, eCode>>

ElfNext ==
    \/ IdIdent
    \/ IdEhdr
    \/ IdPhdr
    \/ IdNote
    \/ IdCode
    \/ FbIdent
    \/ FbEhdr
    \/ FbStr
    \/ FbSec
    \/ FbHash

---------------------------------------------------------------------------
(* Specifications *)

SpecPush == Init /\ [][PushNext]_vars

SpecAddr == Init /\ [][AddrNext]_vars

SpecGap == Init /\ [][GapNext]_vars

SpecCache == Init /\ [][CacheNext]_vars

SpecLoad == LoadInit /\ [][LoadNext]_vars

SpecElf == ElfInit /\ [][ElfNext]_vars

---------------------------------------------------------------------------
(* Claims about sentry__module_mapping_push *)

\* the two equalities of the coalescing contract, on a stored region and a fragment
BothContiguous(last, new) ==
    /\ (last.addr + last.size) % UINT64_MOD = new.start
    /\ (last.offset + last.size) % UINT64_MOD = new.offset

\* new.end - new.start as an unsigned 64-bit difference
FragmentSize(new) == (new.end - new.start + UINT64_MOD) % UINT64_MOD

(* C7: after any sequence of pushes at most 5 regions are stored; six or
   more fragments none of which is contiguous with its predecessor leave
   exactly 5 stored regions; a fragment pushed onto 5 stored regions that
   does not merge into the last one leaves all 5 regions unchanged. *)
C7_RegionCap ==
    /\ Len(pm) <= 5
    /\ (pmCount >= 6 /\ pmApart) => Len(pm) = 5
    /\ (~pmParsed.none /\ Len(pmPrev) = 5 /\ ~BothContiguous(pmPrev[5], pmParsed))
          => pm = pmPrev

\* six fragments, none merged, the sixth dropped
C7_Witness ==
    /\ pmCount = 6
    /\ pmApart
    /\ Len(pmPrev) = 5
    /\ ~BothContiguous(pmPrev[5], pmParsed)
    /\ pm = pmPrev

(* C8: a push merges into the last stored region iff both last.addr +
   last.size = new.start and last.offset + last.size = new.offset; a merge
   grows the last region's size by new.end - new.start and changes nothing
   else; otherwise, under the cap, the region {new.offset, new.end -
   new.start, new.start} is appended and the earlier regions are unchanged. *)
C8_MergeIff ==
    ~pmParsed.none =>
        LET n == Len(pmPrev)
            both == n > 0 /\ BothContiguous(pmPrev[n], pmParsed)
        IN  /\ both =>
                  /\ Len(pm) = n
                  /\ \A i \in 1 .. n - 1 : pm[i] = pmPrev[i]
                  /\ pm[n].offset = pmPrev[n].offset
                  /\ pm[n].addr = pmPrev[n].addr
                  /\ pm[n].size = (pmPrev[n].size + FragmentSize(pmParsed)) % UINT64_MOD
            /\ (~both /\ n < 5) =>
                  /\ Len(pm) = n + 1
                  /\ \A i \in 1 .. n : pm[i] = pmPrev[i]
                  /\ pm[n + 1] = [offset |-> pmParsed.offset,
                                  size |-> FragmentSize(pmParsed),
                                  addr |-> pmParsed.start]

\* a merge has happened, and a fragment contiguous in address only was appended
C8_WitnessMerge ==
    /\ ~pmParsed.none
    /\ Len(pmPrev) > 0
    /\ BothContiguous(pmPrev[Len(pmPrev)], pmParsed)
    /\ pm[Len(pm)].size = 2

---------------------------------------------------------------------------
(* Claims about sentry__module_get_addr *)

\* byte address b is mapped by a stored region
Mapped(b) ==
    \E j \in 1 .. Len(am) : am[j].addr <= b /\ b < am[j].addr + am[j].size

\* file offset o lies in the file-offset range of the stored region r
InFileRange(o, r) == r.offset <= o /\ o < r.offset + r.size

(* C1: when sentry__module_get_addr returns a non-null address a for
   (fileOffset, size), a = fileOffset - r.offset + r.addr for a stored
   region r whose file-offset range contains fileOffset, a + size does not
   exceed 2^64, and every byte of [a, a+size) lies in a stored region's
   mapped address range. *)
C1_TranslateSafe ==
    (~aReq.none /\ aRes # NULL) =>
        /\ \E i \in 1 .. Len(am) :
              /\ InFileRange(aReq.start_offset, am[i])
              /\ aRes = aReq.start_offset - am[i].offset + am[i].addr
        /\ aRes + aReq.size <= UINT64_MOD
        /\ \A b \in aRes .. aRes + aReq.size - 1 : Mapped(b)

(* C2: with two stored regions that are non-contiguous in file offset or in
   mapped address, a request that starts inside the first region's file
   range and extends past its end returns not-found. *)
C2_NoGapSpan ==
    (/\ ~aReq.none
     /\ Len(am) = 2
     /\ \/ am[1].offset + am[1].size # am[2].offset
        \/ am[1].addr + am[1].size # am[2].addr
     /\ InFileRange(aReq.start_offset, am[1])
     /\ aReq.start_offset + aReq.size > am[1].offset + am[1].size)
    => aRes = NULL

---------------------------------------------------------------------------
(* Claims about the cache *)

Lists == 1 .. Len(values)

Building == {t \in Threads : pc[t] \in BuildPcs}

\* threads inside get that have taken their reference and not yet returned
Returning(v) == {t \in Threads : modules[t] = v}

\* list v has been handed to a caller that has not released it
HandedOut(v) == handles[v] > 0 \/ Returning(v) # {}

(* C3: a build runs only under the lock and only when get found the cache
   empty; at most one build per generation and never two at once; all gets
   of one generation return the same list; a get that starts after a clear
   has returned never returns a list built before that clear. *)
C3_OneBuildPerGeneration ==
    /\ hist.builds <= 1
    /\ Cardinality(Building) <= 1
    /\ \A t \in Building : g_mutex = t /\ ~g_initialized
    /\ g_initialized => (hist.builds = 1 /\ g_modules # NullValue)
    /\ Cardinality(hist.returned) <= 1
    /\ \A t \in Threads :
         pc[t] = "g_unlock" =>
             /\ modules[t] # NullValue
             /\ hist.born[modules[t]] >= hist.started[t]

\* two handles to one list that was built after a clear
C3_Witness ==
    \E v \in Lists :
        /\ handles[v] = 2
        /\ hist.born[v] >= 1
        /\ hist.builds = 1
        /\ g_modules = v

(* C4: a list's reference count is the number of unreleased caller handles
   plus one while it is the stored list; it is destroyed exactly when that
   number reaches zero, so a handle obtained before a clear stays valid after
   the clear and after a rebuild. *)
C4_RefcountLifetime ==
    \A v \in Lists :
        LET holders == handles[v] + Cardinality(Returning(v))
                         + (IF g_modules = v THEN 1 ELSE 0)
        IN  /\ values[v].refcount = holders
            /\ values[v].freed <=> holders = 0
            /\ HandedOut(v) => ~values[v].freed

\* a handle that outlived its clear and a rebuild
C4_Witness ==
    \E v \in Lists :
        /\ handles[v] > 0
        /\ ~values[v].freed
        /\ hist.born[v] < hist.clearsDone
        /\ g_modules \notin {v, NullValue}
        /\ g_initialized

(* C5: a list that has been handed out is frozen and holds what it held
   when it was first handed out; the list load_modules is filling has never
   been handed out. *)
C5_FrozenSnapshots ==
    /\ \A v \in Lists :
         HandedOut(v) =>
             /\ values[v].frozen
             /\ hist.published[v] = <<values[v].items>>
    /\ (\E t \in Building : pc[t] # "g_new") =>
           (g_modules # NullValue /\ hist.published[g_modules] = <<>>)

\* a caller holds a non-empty list while a rebuild fills another one
C5_Witness ==
    \E v \in Lists :
        /\ handles[v] > 0
        /\ values[v].items # <<>>
        /\ \E t \in Threads : pc[t] = "l_parse"
        /\ g_modules # v
        /\ values[g_modules].items # values[v].items

(* C9: when the map cannot be opened, cannot be read at all, or the read
   buffer cannot grow, the list stays empty, is frozen and handed out like
   any other; the cache is in the built state once the lock is free; gets
   return that list and nobody builds again before a clear; a thread that
   has returned does not hold the lock. *)
C9_FailedBuildEmptyList ==
    /\ \A v \in Lists :
         hist.outcome[v] \in Failures =>
             /\ values[v].items = <<>>
             /\ HandedOut(v) => (values[v].frozen /\ ~values[v].freed)
             /\ (g_modules = v /\ g_mutex = NoThread) =>
                    (g_initialized /\ hist.builds = 1 /\ hist.returned \subseteq {v})
    /\ \A t \in Threads : pc[t] = "idle" => g_mutex # t

\* two gets returned the empty list of one failed build
C9_Witness ==
    \E v \in Lists :
        /\ hist.outcome[v] \in Failures
        /\ handles[v] = 2
        /\ g_modules = v
        /\ g_mutex = NoThread
        /\ hist.clearsDone >= 1

---------------------------------------------------------------------------
(* Claims about load_modules *)

\* the reasons for which a line is discarded
Defective(line) ==
    \/ line.start = 0
    \/ line.file = <<>>
    \/ line.permissions[1] # "r"
    \/ line.file[Len(line.file)] = ")"
    \/ \A i \in 1 .. Len(line.file) : line.file[i] # "/"
    \/ (Len(line.file) >= 5 /\ SubSeq(line.file, 1, 5) = <<"/", "d", "e", "v", "/">>)

AtVdso(line) == line.start # 0 /\ line.start = linux_vdso

Survives(line) == AtVdso(line) \/ ~Defective(line)

FiledUnder(line) == IF AtVdso(line) THEN LINUX_GATE ELSE line.file

\* the modules a sequence of surviving lines makes: a line joins the last
\* module when it has that module's path and starts a module otherwise
RECURSIVE Groups(_)
Groups(lines) ==
    IF lines = <<>>
    THEN <<>>
    ELSE LET before == Groups(SubSeq(lines, 1, Len(lines) - 1))
             line == lines[Len(lines)]
             n == Len(before)
         IN  IF n > 0 /\ before[n].file = FiledUnder(line)
             THEN [before EXCEPT ![n].mappings = sentry__module_mapping_push(@, line)]
             ELSE Append(before, [file |-> FiledUnder(line),
                                  mappings |-> sentry__module_mapping_push(<<>>, line)])

(* C10: the surviving lines are grouped by path change, each line pushed
   into the one module of its group; every module but the accumulating one
   has been offered to try_append_module exactly once and in map order, the
   accumulating one is offered after the last line; discarded lines change
   nothing; the list holds the descriptors of the offered ELF modules in
   that order. *)
C10_GroupedByPath ==
    LET G == Groups(SelectSeq(lmLines, Survives))
        E == SelectSeq(lmOffered, is_elf_module)
    IN  /\ IF lmDone
           THEN lmOffered = G
           ELSE IF G = <<>>
                THEN lmOffered = <<>> /\ last_module = ZeroModule
                ELSE /\ lmOffered = SubSeq(G, 1, Len(G) - 1)
                     /\ last_module = G[Len(G)]
        /\ Len(mlist) = Len(E)
        /\ \A i \in 1 .. Len(E) :
             /\ mlist[i].code_file = E[i].file
             /\ mlist[i].image_addr = E[i].mappings[1].addr

\* /x, a discarded line, /x again, then another path: two modules, both listed
C10_Witness ==
    /\ lmDone
    /\ Len(lmLines) = 4
    /\ Survives(lmLines[1]) /\ ~Survives(lmLines[2]) /\ Survives(lmLines[3])
    /\ Survives(lmLines[4])
    /\ FiledUnder(lmLines[1]) = FiledUnder(lmLines[3])
    /\ FiledUnder(lmLines[4]) # FiledUnder(lmLines[3])
    /\ Len(lmOffered) = 2
    /\ Len(lmOffered[1].mappings) = 2
    /\ Len(mlist) = 2

---------------------------------------------------------------------------
(* Claims about the ELF introspection *)

\* the read r = <<address, length>> lies inside the range v = <<a, n>>
ReadInside(r, v) == v[1] <= r[1] /\ r[1] + r[2] <= v[1] + v[2]

(* C6: every byte the introspection reads lies inside a range [a, a+n) that
   a successful translation of (module, offset, n) returned; the note scan
   reads no note header, name or build-id byte beyond the end of the
   translated PT_NOTE segment, and the fallback reads no section-name byte
   beyond the translated string table. *)
C6_ReadsInsideTranslated ==
    \A r \in eReads : r[2] > 0 => \E v \in eValid : ReadInside(r, v)

=========================================================================
